---------------------------- MODULE Spec2Model ----------------------------
(***************************************************************************)
(* Model of the usage-billing pipeline of web-pixel-billing-batch:         *)
(*   ShopifyBillingService (chargeShops, chargeShopWithRetry) and          *)
(*   BillingService.processDailyBilling.                                   *)
(* Amounts are in cents.  One step of the model is one resumption of an    *)
(* async function: a provider response, a timer expiry, or the limiter     *)
(* starting a queued task.                                                 *)
(***************************************************************************)
EXTENDS Integers, Sequences, FiniteSets, TLC

(* ------------------------------ bounds -------------------------------- *)
MaxSessions == 2
MaxConcurrency == 2
MaxRetriesCfg == 3
MaxRunRetries == 2
MaxUnitCount == 6000
MaxConnTests == 2

Shops == {"a", "b"}
UnitCounts == {0, 500000}
DirectAmounts == {0, 1050}

(* --------------------------- program constants ------------------------ *)
retryDelay == 1000
ratePerMillion == 10

VARIABLES
  concurrency,    \* pLimit(parseInt(BATCH_SIZE))
  maxRetries,     \* parseInt(MAX_RETRIES)
  sessionsSrc,    \* rows of session_manager.shopify_sessions (shop keys)
  usage,          \* page_viewed counts per shop for the target date
  pc,             \* position of processDailyBilling
  runSessions,    \* const sessions
  billingRecords, \* const billingRecords
  shopResults,    \* const shopResults
  chargeResults,  \* let chargeResults
  report,         \* value returned by processDailyBilling
  ledger,         \* rows of billing.usage_records, in insertion order
  updatedRecords, \* const updatedRecords
  runError,       \* the error caught by processDailyBilling
  reconInserts,   \* calls of insertBillingRecords(updatedRecords)
  called,         \* history: collaborator methods the run has called
  invocation,     \* which invocation of processBilling is being served
  response,       \* res.status(...).json(...) of processBilling
  notified,       \* outcome of slackService.sendBatchResult
  history,        \* history: what each earlier invocation ended with
  dispatch,       \* state of the chargeShops call
  sessions,       \* chargeShops parameter
  charges,        \* chargeShops parameter
  proc,           \* per submitted session: the task given to the limiter
  queue,          \* p-limit queue
  activeCount,    \* p-limit activeCount
  results,        \* value returned by chargeShops
  outOfOrder,     \* history: some task settled before an earlier-submitted one
  connTest,       \* the testConnection call in progress or last settled
  connLog,        \* history: the testConnection calls settled so far
  provider,       \* usage records the provider has created
  calls,          \* chargeShops calls sharing the limiter while they overlap
  testRun         \* the testBilling invocation: position, calls made, answer

cfgVars == <<concurrency, maxRetries, sessionsSrc, usage>>
runVars == <<pc, runSessions, billingRecords, shopResults, chargeResults,
             report, ledger, updatedRecords, runError, reconInserts, called>>
connVars == <<connTest, connLog>>
reqVars == <<invocation, response, notified, history, connVars>>
dispVars == <<dispatch, sessions, charges, proc, queue, activeCount, results,
              outOfOrder>>
provVars == <<provider>>
ovVars == <<calls>>
testVars == <<testRun>>
vars == <<cfgVars, runVars, dispVars, reqVars, provVars, ovVars, testVars>>

(* ------------------------------ helpers ------------------------------- *)
RECURSIVE Pow2(_)
Pow2(n) == IF n <= 0 THEN 1 ELSE 2 * Pow2(n - 1)

SeqsUpTo(S, n) == UNION {[1..k -> S] : k \in 0..n}

Indices == 1..Len(sessions)

NoChargeId == <<>>
NoError == "none"

(* UsageChargeResult *)
NoOutcome ==
  [shop |-> "none", status |-> "none", chargeId |-> NoChargeId,
   error |-> NoError, amount |-> 0]

(* provider responses explored.  HTTP 401, 429, 5xx and any other axios      *)
(* failure (timeout, network, other 4xx) make makeGraphQLRequest throw;      *)
(* "userErrors" is a 200 response of appUsageRecordCreate carrying userErrors *)
(* "eNet" is a request that never took effect; "eLost" is a request the      *)
(* provider applied whose response timed out or was lost on the way back     *)
ErrResponses == {"e401", "e429", "e5xx", "eNet"}
LookupResponses == {"line", "noline"} \cup ErrResponses
CreateResponses == {"id", "userErrors"} \cup ErrResponses

ErrorMessage(r) ==
  CASE r = "e401" -> "Invalid access token"
    [] r = "e429" -> "Rate limit exceeded"
    [] r = "e5xx" -> "Shopify API error"
    [] r = "eNet" -> "API request failed"
    [] r = "eLost" -> "API request failed"
    [] r = "eGql" -> "GraphQL errors"
    [] r = "userErrors" -> "GraphQL errors: userErrors"
    [] r = "noId" -> "Failed to create usage charge - no charge ID returned"

(* the id the provider returns for the create call of task i, attempt a *)
ChargeIdOf(i, a) == <<i, a>>

(* charges.get(session.shop) || 0 *)
AmountFor(chg, shop) == IF shop \in DOMAIN chg THEN chg[shop] ELSE 0

(* mutant: only negative amounts are skipped *)
IsSkipped_NegativeOnly(amount) == amount < 0

(* if (amount <= 0) *)
IsSkipped(amount) == amount <= 0

(* mutant: one retry too many *)
ShouldRetry_OffByOne(attempt) == attempt <= maxRetries

(* mutant: a first retry is made whatever MAX_RETRIES is *)
ShouldRetry_AtLeastOnce(attempt) ==
  attempt < (IF maxRetries < 2 THEN 2 ELSE maxRetries)

(* if (attempt < this.maxRetries) *)
ShouldRetry(attempt) == attempt < maxRetries

(* this.retryDelay * Math.pow(2, attempt - 1) *)
BackoffDelay(attempt) == retryDelay * Pow2(attempt - 1)

(* mutant: the limiter starts queued tasks whatever the active count *)
SlotFree_Unbounded == TRUE

(* mutant: the limiter never finds a free slot *)
SlotFree_Never == FALSE

(* p-limit: activeCount < concurrency && queue.size > 0 *)
SlotFree == activeCount < concurrency

InitialTask ==
  [phase |-> "queued", attempt |-> 0, errorMessage |-> NoError,
   sleeps |-> <<>>, outcome |-> NoOutcome]

OutcomesWith(p, status) ==
  LET all == [i \in DOMAIN p |-> p[i].outcome]
      Is(o) == o.status = status
  IN SelectSeq(all, Is)

(* mutant: the results are returned grouped by status *)
PromiseAll_Grouped(p) ==
  OutcomesWith(p, "success") \o OutcomesWith(p, "failed")
    \o OutcomesWith(p, "skipped")

(* Promise.all(promises): the i-th value is the value of the i-th promise *)
PromiseAll(p) == [i \in DOMAIN p |-> p[i].outcome]

(* ----------------------------- dispatcher ----------------------------- *)
(* chargeShops: sessions.map(session => this.concurrencyLimit(...)) *)
ChargeShopsBegin(sess, chg) ==
  /\ sessions' = sess
  /\ charges' = chg
  /\ proc' = [i \in 1..Len(sess) |-> InitialTask]
  /\ queue' = [i \in 1..Len(sess) |-> i]
  /\ activeCount' = 0
  /\ results' = <<>>
  /\ outOfOrder' = FALSE
  /\ dispatch' = "running"

(* p-limit next(): activeCount--; if (queue.size > 0) queue.dequeue()() *)
(* applied to the task table p in which task i has just settled          *)
LimiterNext(p) ==
  IF queue /= <<>>
    THEN /\ proc' = [p EXCEPT ![Head(queue)].phase = "started"]
         /\ queue' = Tail(queue)
         /\ activeCount' = activeCount
    ELSE /\ proc' = p
         /\ queue' = queue
         /\ activeCount' = activeCount - 1

(* the task's promise resolves with outcome o; p-limit's run() then calls next() *)
Settle(i, o) ==
  /\ LimiterNext([proc EXCEPT ![i].phase = "done", ![i].outcome = o])
  /\ outOfOrder' = (outOfOrder \/ \E j \in 1..(i - 1) : proc[j].phase /= "done")
  /\ UNCHANGED <<dispatch, sessions, charges, results>>

(* p-limit enqueue(): start the head of the queue while a slot is free *)
LimiterStart ==
  /\ dispatch = "running"
  /\ queue /= <<>>
  /\ SlotFree
  /\ proc' = [proc EXCEPT ![Head(queue)].phase = "started"]
  /\ queue' = Tail(queue)
  /\ activeCount' = activeCount + 1
  /\ UNCHANGED <<testVars, provVars, ovVars,
                 cfgVars, reqVars, runVars, dispatch, sessions, charges, results,
                 outOfOrder>>

SkippedOutcome(i) ==
  [shop |-> sessions[i], status |-> "skipped", chargeId |-> NoChargeId,
   error |-> NoError, amount |-> 0]

FailedOutcome(i, msg) ==
  [shop |-> sessions[i], status |-> "failed", chargeId |-> NoChargeId,
   error |-> msg, amount |-> AmountFor(charges, sessions[i])]

SuccessOutcome(i, id) ==
  [shop |-> sessions[i], status |-> "success", chargeId |-> id,
   error |-> NoError, amount |-> AmountFor(charges, sessions[i])]

(* body of the limited task: skip, or chargeShopWithRetry(session, amount) *)
(* whose first await is the line lookup request                            *)
TaskBody(i) ==
  /\ proc[i].phase = "started"
  /\ IF IsSkipped(AmountFor(charges, sessions[i]))
       THEN Settle(i, SkippedOutcome(i))
       ELSE /\ proc' = [proc EXCEPT ![i].phase = "lookup", ![i].attempt = 1]
            /\ UNCHANGED <<dispatch, sessions, charges, queue, activeCount,
                           results, outOfOrder>>
  /\ UNCHANGED <<testVars, provVars, ovVars, cfgVars, reqVars, runVars>>

(* mutant: once the retries are used up the error is thrown again, so the  *)
(* task's promise rejects and Promise.all rejects chargeShops               *)
CatchError_Rethrow(i, msg) ==
  IF ShouldRetry(proc[i].attempt)
    THEN /\ proc' = [proc EXCEPT ![i].phase = "sleep",
                                 ![i].errorMessage = msg,
                                 ![i].sleeps = Append(@, BackoffDelay(proc[i].attempt))]
         /\ UNCHANGED <<dispatch, sessions, charges, queue, activeCount,
                        results, outOfOrder>>
    ELSE /\ LimiterNext([proc EXCEPT ![i].phase = "done"])
         /\ dispatch' = "rejected"
         /\ UNCHANGED <<sessions, charges, results, outOfOrder>>

(* mutant: the failed result carries a fixed message, not the caught one *)
CatchError_GenericMessage(i, msg) ==
  IF ShouldRetry(proc[i].attempt)
    THEN /\ proc' = [proc EXCEPT ![i].phase = "sleep",
                                 ![i].errorMessage = msg,
                                 ![i].sleeps = Append(@, BackoffDelay(proc[i].attempt))]
         /\ UNCHANGED <<dispatch, sessions, charges, queue, activeCount,
                        results, outOfOrder>>
    ELSE Settle(i, FailedOutcome(i, "Unknown error"))

(* catch (error) of chargeShopWithRetry *)
CatchError(i, msg) ==
  IF ShouldRetry(proc[i].attempt)
    THEN /\ proc' = [proc EXCEPT ![i].phase = "sleep",
                                 ![i].errorMessage = msg,
                                 ![i].sleeps = Append(@, BackoffDelay(proc[i].attempt))]
         /\ UNCHANGED <<dispatch, sessions, charges, queue, activeCount,
                        results, outOfOrder>>
    ELSE Settle(i, FailedOutcome(i, msg))

(* mutant: a missing line item is thrown and handled by the catch block *)
LookupReturns_NoLineThrows(i, r) ==
  /\ proc[i].phase = "lookup"
  /\ CASE r = "line" ->
            /\ proc' = [proc EXCEPT ![i].phase = "create"]
            /\ UNCHANGED <<dispatch, sessions, charges, queue, activeCount,
                           results, outOfOrder>>
       [] OTHER ->
            CatchError(i, IF r = "noline"
                            THEN "No active usage-based subscription found"
                            ELSE ErrorMessage(r))
  /\ UNCHANGED <<testVars, provVars, ovVars, cfgVars, reqVars, runVars>>

(* getSubscriptionLineItemId returns or throws *)
LookupReturns(i, r) ==
  /\ proc[i].phase = "lookup"
  /\ CASE r = "line" ->
            /\ proc' = [proc EXCEPT ![i].phase = "create"]
            /\ UNCHANGED <<dispatch, sessions, charges, queue, activeCount,
                           results, outOfOrder>>
       [] r = "noline" ->
            Settle(i, FailedOutcome(i, "No active usage-based subscription found"))
       [] OTHER -> CatchError(i, ErrorMessage(r))
  /\ UNCHANGED <<testVars, provVars, ovVars, cfgVars, reqVars, runVars>>

(* the appUsageRecord the provider creates on the create request of task i: *)
(* the mutation carries the line item, the price and a description, and no  *)
(* idempotency key, so every applied request creates a record of its own    *)
UsageRecordOf(i) ==
  [shop |-> sessions[i], amount |-> AmountFor(charges, sessions[i]),
   id |-> ChargeIdOf(i, proc[i].attempt), invocation |-> invocation]

(* the provider applies the mutation when it answers with the record id,    *)
(* and also when it created the record but the response was lost            *)
ProviderApplies(r) == r \in {"id", "eLost"}

(* mutant: a response without a record id is returned as a success *)
CreateReturns_NoIdCheck(i, r) ==
  /\ proc[i].phase = "create"
  /\ provider' = IF ProviderApplies(r)
                   THEN provider \cup {UsageRecordOf(i)}
                   ELSE provider
  /\ CASE r = "id" ->
            Settle(i, SuccessOutcome(i, ChargeIdOf(i, proc[i].attempt)))
       [] r = "noId" -> Settle(i, SuccessOutcome(i, NoChargeId))
       [] OTHER -> CatchError(i, ErrorMessage(r))
  /\ UNCHANGED <<testVars, ovVars, cfgVars, reqVars, runVars>>

(* createUsageCharge returns or throws *)
CreateReturns(i, r) ==
  /\ proc[i].phase = "create"
  /\ provider' = IF ProviderApplies(r)
                   THEN provider \cup {UsageRecordOf(i)}
                   ELSE provider
  /\ IF r = "id"
       THEN Settle(i, SuccessOutcome(i, ChargeIdOf(i, proc[i].attempt)))
       ELSE CatchError(i, ErrorMessage(r))
  /\ UNCHANGED <<testVars, ovVars, cfgVars, reqVars, runVars>>

(* mutant: the retry reuses the line id and goes straight to the creation *)
SleepEnds_SkipLookup(i) ==
  /\ proc[i].phase = "sleep"
  /\ proc' = [proc EXCEPT ![i].phase = "create", ![i].attempt = @ + 1,
                          ![i].errorMessage = NoError]
  /\ UNCHANGED <<testVars, provVars, ovVars, cfgVars, reqVars, runVars,
                 dispatch, sessions, charges, queue, activeCount, results,
                 outOfOrder>>

(* the backoff timer fires: chargeShopWithRetry(session, amount, attempt + 1) *)
SleepEnds(i) ==
  /\ proc[i].phase = "sleep"
  /\ proc' = [proc EXCEPT ![i].phase = "lookup", ![i].attempt = @ + 1,
                          ![i].errorMessage = NoError]
  /\ UNCHANGED <<testVars, provVars, ovVars,
                 cfgVars, reqVars, runVars, dispatch, sessions, charges, queue,
                 activeCount, results, outOfOrder>>

AllSettled == \A i \in Indices : proc[i].phase = "done"

(* const results = await Promise.all(promises); return results *)
ChargeShopsReturns ==
  /\ dispatch = "running"
  /\ AllSettled
  /\ dispatch' = "returned"
  /\ results' = PromiseAll(proc)
  /\ UNCHANGED <<sessions, charges, proc, queue, activeCount, outOfOrder>>

DispatcherStep ==
  \/ LimiterStart
  \/ \E i \in Indices : TaskBody(i)
  \/ \E i \in Indices : \E r \in LookupResponses : LookupReturns(i, r)
  \/ \E i \in Indices : \E r \in CreateResponses : CreateReturns(i, r)
  \/ \E i \in Indices : SleepEnds(i)

(* --------------------------- orchestrator ----------------------------- *)
RECURSIVE SumOf(_, _)
SumOf(seq, field) ==
  IF seq = <<>> THEN 0 ELSE Head(seq)[field] + SumOf(Tail(seq), field)

NoReport ==
  [success |-> FALSE, skipped |-> FALSE, skipReason |-> "none",
   activeSessions |-> 0, billingRecordsGenerated |-> 0, totalPageViews |-> 0,
   totalAmount |-> 0, chargeResults |-> <<>>, shopResults |-> <<>>,
   errorMessage |-> NoError]

(* page-view counts up to 50000 for which the double                        *)
(* (pageViews / 1_000_000) * ratePerMillion * 100 is less than the exact    *)
(* product k + 0.5: 5500 gives 5.499999999999999, 21500 gives               *)
(* 21.499999999999996.  Every other count up to 50000, and every multiple   *)
(* of 1000, gives a double that Math.round rounds like the exact product.   *)
ProductBelowTie == {5500, 21500, 22500, 43500, 44500, 45500}

(* mutant: the rate is applied per thousand page views *)
calculateBillingAmount_PerThousand(pageViews) ==
  (pageViews * ratePerMillion * 100) \div 1000

(* Math.round(pageViews / 1_000_000 * ratePerMillion * 100) / 100, in       *)
(* cents: Math.round rounds the double product, ties towards +Infinity      *)
calculateBillingAmount(pageViews) ==
  LET micro == pageViews * ratePerMillion * 100
      whole == micro \div 1000000
      frac == micro % 1000000
  IN IF frac > 500000 \/ (frac = 500000 /\ pageViews \notin ProductBelowTie)
       THEN whole + 1
       ELSE whole

(* BillingRecord; shopify_billing_status "none" is an absent field *)
BillingRecordOf(shop, views) ==
  [shop |-> shop, page_views |-> views,
   billing_amount |-> calculateBillingAmount(views),
   shopify_billing_status |-> "none", shopify_charge_id |-> NoChargeId,
   shopify_error_message |-> NoError, shopify_processed_at |-> FALSE]

RECURSIVE SeqOfSet(_)
SeqOfSet(S) ==
  IF S = {} THEN <<>>
  ELSE LET x == CHOOSE y \in S : TRUE IN <<x>> \o SeqOfSet(S \ {x})

(* rows of getPageViewsForDate: the GROUP BY shop query gives one row       *)
(* per shop that has page_viewed events on the date                         *)
PageViewRows(counts) ==
  LET withEvents == {s \in DOMAIN counts : counts[s] > 0}
      keys == SeqOfSet(withEvents)
  IN [k \in 1..Len(keys) |-> [shop |-> keys[k], event_count |-> counts[keys[k]]]]

(* pageViewsMap.get(shop) || 0, where new Map(pageViews.map(...)) keeps the *)
(* last row of a shop                                                       *)
ViewCount(pageViews, shop) ==
  IF \E k \in 1..Len(pageViews) : pageViews[k].shop = shop
    THEN pageViews[CHOOSE k \in 1..Len(pageViews) :
                     /\ pageViews[k].shop = shop
                     /\ \A j \in 1..Len(pageViews) :
                          pageViews[j].shop = shop => j <= k].event_count
    ELSE 0

(* mutant: only the sessions that have a page-view row get a record *)
generateBillingRecords_InnerJoin(sess, pageViews) ==
  LET HasRow(shop) == \E k \in 1..Len(pageViews) : pageViews[k].shop = shop
      kept == SelectSeq(sess, HasRow)
  IN [i \in 1..Len(kept) |-> BillingRecordOf(kept[i], ViewCount(pageViews, kept[i]))]

(* for (const session of sessions) billingRecords.push({...}) *)
generateBillingRecords(sess, pageViews) ==
  [i \in 1..Len(sess) |-> BillingRecordOf(sess[i], ViewCount(pageViews, sess[i]))]

(* mutant: a shop the ledger shows as charged is given nothing to charge *)
ChargeMapOf_SkipBilled(records) ==
  [s \in {records[i].shop : i \in 1..Len(records)} |->
     LET last == CHOOSE i \in 1..Len(records) :
                   /\ records[i].shop = s
                   /\ \A j \in 1..Len(records) : records[j].shop = s => j <= i
     IN IF \E k \in 1..Len(ledger) :
             /\ ledger[k].shop = s
             /\ ledger[k].shopify_billing_status = "success"
          THEN 0
          ELSE records[last].billing_amount]

(* new Map(billingRecords.map(record => [record.shop, record.billing_amount])) *)
ChargeMapOf(records) ==
  [s \in {records[i].shop : i \in 1..Len(records)} |->
     LET last == CHOOSE i \in 1..Len(records) :
                   /\ records[i].shop = s
                   /\ \A j \in 1..Len(records) : records[j].shop = s => j <= i
     IN records[last].billing_amount]

(* chargeResults.find(r => r.shop === shop): index of the first match, or 0 *)
FindResult(res, shop) ==
  IF \E i \in 1..Len(res) : res[i].shop = shop
    THEN CHOOSE i \in 1..Len(res) :
           /\ res[i].shop = shop
           /\ \A j \in 1..Len(res) : res[j].shop = shop => i <= j
    ELSE 0

(* mutant: the outcome status is written as it is, skipped included *)
UpdatedRecordOf_StatusAsIs(record, res) ==
  LET k == FindResult(res, record.shop) IN
  IF k = 0 THEN record
  ELSE [record EXCEPT
          !.shopify_charge_id = res[k].chargeId,
          !.shopify_billing_status = res[k].status,
          !.shopify_error_message = res[k].error,
          !.shopify_processed_at = (res[k].status = "success")]

(* mutant: shopify_processed_at is stamped whatever the outcome *)
UpdatedRecordOf_AlwaysProcessedAt(record, res) ==
  LET k == FindResult(res, record.shop) IN
  IF k = 0 THEN record
  ELSE [record EXCEPT
          !.shopify_charge_id = res[k].chargeId,
          !.shopify_billing_status =
             IF res[k].status = "skipped" THEN "pending" ELSE res[k].status,
          !.shopify_error_message = res[k].error,
          !.shopify_processed_at = TRUE]

(* billingRecords.map(record => ({...record, status from chargeResult})) *)
UpdatedRecordOf(record, res) ==
  LET k == FindResult(res, record.shop) IN
  IF k = 0 THEN record
  ELSE [record EXCEPT
          !.shopify_charge_id = res[k].chargeId,
          !.shopify_billing_status =
             IF res[k].status = "skipped" THEN "pending" ELSE res[k].status,
          !.shopify_error_message = res[k].error,
          !.shopify_processed_at = (res[k].status = "success")]

ShopResultOf(record, saved, bqError, status, chargeId, err) ==
  [shop |-> record.shop, pageViews |-> record.page_views,
   billingAmount |-> record.billing_amount, bigQuerySaved |-> saved,
   bigQueryError |-> bqError, shopifyStatus |-> status,
   shopifyChargeId |-> chargeId, shopifyError |-> err]

(* shopResults.forEach(shopResult => { ...chargeResult... }) *)
UpdatedShopResultOf(sr, res) ==
  LET k == FindResult(res, sr.shop) IN
  IF k = 0 THEN sr
  ELSE [sr EXCEPT !.shopifyStatus = res[k].status,
                  !.shopifyChargeId = res[k].chargeId,
                  !.shopifyError = res[k].error]

(* processBilling is invoked and calls processDailyBilling, whose first      *)
(* await is getActiveShopifySessions                                        *)
StartRun ==
  /\ pc = "idle"
  /\ pc' = "getSessions"
  /\ invocation' = "first"
  /\ called' = {"getActiveShopifySessions"}
  /\ UNCHANGED <<testVars, provVars, ovVars,
                 cfgVars, dispVars, runSessions, billingRecords, shopResults,
                 chargeResults, report, ledger, updatedRecords, runError,
                 reconInserts, response, notified, history, connVars>>

(* mutant: an empty session list is processed like any other *)
GetSessionsReturns_NoSkip(ok) ==
  /\ pc = "getSessions"
  /\ IF ~ok
       THEN /\ pc' = "catch"
            /\ runError' = "sessions query failed"
            /\ UNCHANGED <<runSessions, called>>
       ELSE /\ runSessions' = sessionsSrc
            /\ runError' = runError
            /\ pc' = "getPageViews"
            /\ called' = called \cup {"getPageViewsForDate"}
  /\ UNCHANGED <<testVars, provVars, ovVars,
                 cfgVars, reqVars, dispVars, billingRecords, shopResults,
                 chargeResults, report, ledger, updatedRecords, reconInserts>>

(* getActiveShopifySessions returns or throws *)
GetSessionsReturns(ok) ==
  /\ pc = "getSessions"
  /\ IF ~ok
       THEN /\ pc' = "catch"
            /\ runError' = "sessions query failed"
            /\ UNCHANGED <<runSessions, report>>
       ELSE /\ runSessions' = sessionsSrc
            /\ runError' = runError
            /\ IF Len(sessionsSrc) = 0
                 THEN /\ pc' = "done"
                      /\ report' = [NoReport EXCEPT
                                      !.success = TRUE, !.skipped = TRUE,
                                      !.skipReason = "No active sessions found"]
                 ELSE /\ pc' = "getPageViews"
                      /\ report' = report
  /\ called' = IF ok /\ Len(sessionsSrc) > 0
                 THEN called \cup {"getPageViewsForDate"}
                 ELSE called
  /\ UNCHANGED <<testVars, provVars, ovVars,
                 cfgVars, reqVars, dispVars, billingRecords, shopResults,
                 chargeResults, ledger, updatedRecords, reconInserts>>

(* mutant: a failed page-view query is taken as "no page views" *)
GetPageViewsReturns_ZeroOnError(ok) ==
  /\ pc = "getPageViews"
  /\ billingRecords' =
       generateBillingRecords(runSessions,
                              IF ok THEN PageViewRows(usage) ELSE <<>>)
  /\ pc' = "insertPending"
  /\ runError' = IF ok THEN runError ELSE "page views query failed"
  /\ called' = called \cup {"insertBillingRecords"}
  /\ UNCHANGED <<testVars, provVars, ovVars,
                 cfgVars, reqVars, dispVars, runSessions, shopResults,
                 chargeResults, report, ledger, updatedRecords, reconInserts>>

(* getPageViewsForDate returns or throws; then generateBillingRecords and  *)
(* the call of insertBillingRecords(recordsWithStatus)                     *)
GetPageViewsReturns(ok) ==
  /\ pc = "getPageViews"
  /\ IF ~ok
       THEN /\ pc' = "catch"
            /\ runError' = "page views query failed"
            /\ billingRecords' = billingRecords
       ELSE /\ billingRecords' =
                 generateBillingRecords(runSessions, PageViewRows(usage))
            /\ pc' = "insertPending"
            /\ runError' = runError
  /\ called' = IF ok THEN called \cup {"insertBillingRecords"} ELSE called
  /\ UNCHANGED <<testVars, provVars, ovVars,
                 cfgVars, reqVars, dispVars, runSessions, shopResults,
                 chargeResults, report, ledger, updatedRecords, reconInserts>>

(* mutant: a row the table already holds is not inserted again *)
TableInsert_Idempotent(tbl, rows) ==
  LET Fresh(r) == \A k \in 1..Len(tbl) : tbl[k] /= r
  IN tbl \o SelectSeq(rows, Fresh)

(* await table.insert(rowsToInsert): the rows are appended to the table *)
TableInsert(tbl, rows) == tbl \o rows

PendingRows(records) ==
  [i \in 1..Len(records) |->
     [records[i] EXCEPT !.shopify_billing_status = "pending"]]

(* mutant: chargeShops is called before the pending rows are written *)
InsertPendingOk_ChargeFirst ==
  /\ pc = "insertPending"
  /\ ledger' = ledger
  /\ shopResults' = shopResults
  /\ ChargeShopsBegin(runSessions, ChargeMapOf(billingRecords))
  /\ pc' = "dispatch"
  /\ called' = called \cup {"chargeShops"}
  /\ UNCHANGED <<testVars, provVars, ovVars,
                 cfgVars, reqVars, runSessions, billingRecords, chargeResults,
                 report, updatedRecords, runError, reconInserts>>

(* insertBillingRecords(recordsWithStatus) resolved: shopResults are        *)
(* initialised and chargeShops(sessions, chargeMap) is called               *)
InsertPendingOk ==
  /\ pc = "insertPending"
  /\ ledger' = TableInsert(ledger, PendingRows(billingRecords))
  /\ shopResults' = [i \in 1..Len(billingRecords) |->
        ShopResultOf(billingRecords[i], TRUE, NoError, "pending",
                     NoChargeId, NoError)]
  /\ ChargeShopsBegin(runSessions, ChargeMapOf(billingRecords))
  /\ pc' = "dispatch"
  /\ called' = called \cup {"chargeShops"}
  /\ UNCHANGED <<testVars, provVars, ovVars,
                 cfgVars, reqVars, runSessions, billingRecords, chargeResults,
                 report, updatedRecords, runError, reconInserts>>

(* mutant: the insert error is logged and the run goes on to charge *)
InsertPendingFails_Continue ==
  /\ pc = "insertPending"
  /\ shopResults' = shopResults
  /\ runError' = "pending insert failed"
  /\ ChargeShopsBegin(runSessions, ChargeMapOf(billingRecords))
  /\ pc' = "dispatch"
  /\ called' = called \cup {"chargeShops"}
  /\ UNCHANGED <<testVars, provVars, ovVars,
                 cfgVars, reqVars, runSessions, billingRecords, chargeResults,
                 report, ledger, updatedRecords, reconInserts>>

(* insertBillingRecords(recordsWithStatus) rejected: throw bigQueryError *)
InsertPendingFails ==
  /\ pc = "insertPending"
  /\ shopResults' = [i \in 1..Len(billingRecords) |->
        ShopResultOf(billingRecords[i], FALSE, "pending insert failed",
                     "skipped", NoChargeId, NoError)]
  /\ runError' = "pending insert failed"
  /\ pc' = "catch"
  /\ UNCHANGED <<testVars, provVars, ovVars,
                 cfgVars, reqVars, dispVars, runSessions, billingRecords,
                 chargeResults, report, ledger, updatedRecords, reconInserts,
                 called>>

(* chargeShops resolved: build updatedRecords, update shopResults and call  *)
(* insertBillingRecords(updatedRecords)                                     *)
RunChargeShopsReturns ==
  /\ pc = "dispatch"
  /\ ChargeShopsReturns
  /\ chargeResults' = results'
  /\ updatedRecords' = [i \in 1..Len(billingRecords) |->
        UpdatedRecordOf(billingRecords[i], results')]
  /\ shopResults' = [i \in 1..Len(shopResults) |->
        UpdatedShopResultOf(shopResults[i], results')]
  /\ reconInserts' = reconInserts + 1
  /\ pc' = "insertRecon"
  /\ UNCHANGED <<testVars, provVars, ovVars,
                 cfgVars, reqVars, runSessions, billingRecords, report, ledger,
                 runError, called>>

(* mutant: the pending rows of the run are overwritten with the outcomes *)
InsertReconOk_UpdateInPlace ==
  /\ pc = "insertRecon"
  /\ ledger' = SubSeq(ledger, 1, Len(ledger) - Len(updatedRecords))
                  \o updatedRecords
  /\ report' = [NoReport EXCEPT
        !.success = TRUE,
        !.activeSessions = Len(runSessions),
        !.billingRecordsGenerated = Len(billingRecords),
        !.totalPageViews = SumOf(billingRecords, "page_views"),
        !.totalAmount = SumOf(billingRecords, "billing_amount"),
        !.chargeResults = chargeResults,
        !.shopResults = shopResults]
  /\ pc' = "done"
  /\ UNCHANGED <<testVars, provVars, ovVars,
                 cfgVars, reqVars, dispVars, runSessions, billingRecords,
                 shopResults, chargeResults, updatedRecords, runError,
                 reconInserts, called>>

(* mutant: the run is reported successful only if no tenant's charge failed *)
InsertReconOk_FailedChargeFailsRun ==
  /\ pc = "insertRecon"
  /\ ledger' = TableInsert(ledger, updatedRecords)
  /\ report' = [NoReport EXCEPT
        !.success = \A i \in 1..Len(chargeResults) :
                       chargeResults[i].status /= "failed",
        !.activeSessions = Len(runSessions),
        !.billingRecordsGenerated = Len(billingRecords),
        !.totalPageViews = SumOf(billingRecords, "page_views"),
        !.totalAmount = SumOf(billingRecords, "billing_amount"),
        !.chargeResults = chargeResults,
        !.shopResults = shopResults]
  /\ pc' = "done"
  /\ UNCHANGED <<testVars, provVars, ovVars,
                 cfgVars, reqVars, dispVars, runSessions, billingRecords,
                 shopResults, chargeResults, updatedRecords, runError,
                 reconInserts, called>>

(* insertBillingRecords(updatedRecords) resolved: the summary is returned *)
InsertReconOk ==
  /\ pc = "insertRecon"
  /\ ledger' = TableInsert(ledger, updatedRecords)
  /\ report' = [NoReport EXCEPT
        !.success = TRUE,
        !.activeSessions = Len(runSessions),
        !.billingRecordsGenerated = Len(billingRecords),
        !.totalPageViews = SumOf(billingRecords, "page_views"),
        !.totalAmount = SumOf(billingRecords, "billing_amount"),
        !.chargeResults = chargeResults,
        !.shopResults = shopResults]
  /\ pc' = "done"
  /\ UNCHANGED <<testVars, provVars, ovVars,
                 cfgVars, reqVars, dispVars, runSessions, billingRecords,
                 shopResults, chargeResults, updatedRecords, runError,
                 reconInserts, called>>

(* insertBillingRecords(updatedRecords) rejected: the error reaches catch *)
InsertReconFails ==
  /\ pc = "insertRecon"
  /\ runError' = "reconciliation insert failed"
  /\ pc' = "catch"
  /\ UNCHANGED <<testVars, provVars, ovVars,
                 cfgVars, reqVars, dispVars, runSessions, billingRecords,
                 shopResults, chargeResults, report, ledger, updatedRecords,
                 reconInserts, called>>

(* outcomes of the two reads the catch block makes for context *)
ContextReads == {"ok", "sessionsFailed", "pageViewsFailed"}

(* catch (error): re-read sessions and page views for context, or leave     *)
(* shopResults empty when a re-read throws; return the failure report       *)
CatchReturns(reads) ==
  /\ pc = "catch"
  /\ LET records == generateBillingRecords(sessionsSrc, PageViewRows(usage))
         ctx == IF reads = "ok"
                  THEN [i \in 1..Len(records) |->
                          ShopResultOf(records[i], FALSE, runError, "skipped",
                                       NoChargeId,
                                       "Process failed before Shopify billing")]
                  ELSE <<>>
     IN report' = [NoReport EXCEPT
          !.skipReason = "Process failed",
          !.shopResults = ctx,
          !.errorMessage = runError]
  /\ pc' = "done"
  /\ called' = IF reads = "sessionsFailed"
                 THEN called
                 ELSE called \cup {"getPageViewsForDate"}
  /\ UNCHANGED <<testVars, provVars, ovVars,
                 cfgVars, reqVars, dispVars, runSessions, billingRecords,
                 shopResults, chargeResults, ledger, updatedRecords, runError,
                 reconInserts>>

NoResponse ==
  [status |-> 0, success |-> FALSE, message |-> "none",
   billingDetails |-> NoReport]

Responded == response /= NoResponse

(* what sendBatchResult meets: the dummy token disables the notification,   *)
(* chat.postMessage resolves, or building or posting the message throws     *)
SlackDeliveries == {"posted", "failed", "disabled"}

sendBatchResult_Rethrows(delivery) ==
  IF delivery = "failed" THEN "thrown" ELSE "returned"

(* how the promise of sendBatchResult settles: the dummy-token branch       *)
(* returns before the try, and the catch around the message building and    *)
(* chat.postMessage logs the error and does not rethrow                     *)
sendBatchResult(delivery) ==
  CASE delivery = "disabled" -> "returned"
    [] delivery = "posted" -> "returned"
    [] delivery = "failed" -> "returned"

(* the errorResult of the catch branch of processBilling *)
ErrorResult ==
  [status |-> 500, success |-> FALSE,
   message |-> "Billing process failed unexpectedly",
   billingDetails |-> [NoReport EXCEPT !.skipReason = "Unexpected error"]]

(* processBilling after processDailyBilling has returned billingResult:     *)
(* the result is built with success: true, sendBatchResult(result) is       *)
(* awaited and res.status(200).json(result) follows.  The catch branch of   *)
(* processBilling answers 500 with errorResult when an awaited call         *)
(* rejects; processDailyBilling returns its failures, so only a rejection   *)
(* of sendBatchResult could enter it.                                       *)
ProcessBillingResponds(slack) ==
  /\ pc = "done"
  /\ response = NoResponse
  /\ response' = IF sendBatchResult(slack) = "thrown"
                   THEN ErrorResult
                   ELSE [status |-> 200, success |-> TRUE,
                         message |-> IF report.skipped
                                       THEN "Billing process skipped"
                                       ELSE "Billing process completed successfully",
                         billingDetails |-> report]
  /\ notified' = slack
  /\ UNCHANGED <<testVars, provVars, ovVars,
                 cfgVars, runVars, dispVars, invocation, history, connVars>>

RunDispatcherStep ==
  /\ pc = "dispatch"
  /\ DispatcherStep


(* ---------------------------- testConnection -------------------------- *)
(* provider responses to the shop query: data, a 200 response carrying      *)
(* errors, or one of the failures makeGraphQLRequest rethrows               *)
ConnResponses == {"ok", "eGql"} \cup ErrResponses

NoConnTest == [phase |-> "idle", shop |-> "none", requests |-> 0,
               result |-> "none"]

testConnection_Rethrows(r) == IF r = "ok" THEN "true" ELSE "thrown"

(* testConnection: await makeGraphQLRequest inside try returns true, the    *)
(* catch logs the error and returns false                                   *)
testConnection(r) == IF r = "ok" THEN "true" ELSE "false"

(* testConnection(session) is called and issues its makeGraphQLRequest *)
TestConnectionCalled(shop) ==
  /\ connTest.phase \in {"idle", "settled"}
  /\ Len(connLog) < MaxConnTests
  /\ connTest' = [phase |-> "requesting", shop |-> shop, requests |-> 1,
                  result |-> "none"]
  /\ UNCHANGED <<testVars, provVars, ovVars,
                 cfgVars, runVars, dispVars, invocation, response, notified,
                 history, connLog>>

(* the request returns or throws and the promise of testConnection settles *)
TestRequestSettles(r) ==
  /\ connTest.phase = "requesting"
  /\ connTest' = [connTest EXCEPT !.phase = "settled",
                                  !.result = testConnection(r)]
  /\ connLog' = Append(connLog, [shop |-> connTest.shop, response |-> r,
                                 requests |-> connTest.requests,
                                 result |-> testConnection(r)])
  /\ UNCHANGED <<testVars, provVars, ovVars,
                 cfgVars, runVars, dispVars, invocation, response, notified,
                 history>>

(* ------------------------- testBillingForDate ------------------------- *)
NoTestReport ==
  [success |-> FALSE, skipped |-> FALSE, activeSessions |-> 0,
   billingRecordsGenerated |-> 0, totalPageViews |-> 0, totalAmount |-> 0]

NoTestRun ==
  [pc |-> "idle", sessions |-> <<>>, calls |-> {}, status |-> 0,
   report |-> NoTestReport]

(* testBilling is invoked and calls testBillingForDate(testDate), whose     *)
(* first await is getActiveShopifySessions                                  *)
TestBillingCalled ==
  /\ testRun.pc = "idle"
  /\ testRun' = [testRun EXCEPT !.pc = "getSessions",
                                !.calls = {"getActiveShopifySessions"}]
  /\ UNCHANGED <<provVars, ovVars, cfgVars, reqVars, runVars, dispVars>>

(* getActiveShopifySessions returns, or throws: testBillingForDate has no   *)
(* try, so the catch of testBilling answers 500                             *)
TestSessionsReturns(ok) ==
  /\ testRun.pc = "getSessions"
  /\ testRun' = IF ok
                  THEN [testRun EXCEPT
                          !.pc = "getPageViews",
                          !.sessions = sessionsSrc,
                          !.calls = @ \cup {"getPageViewsForDate"}]
                  ELSE [testRun EXCEPT !.pc = "done", !.status = 500]
  /\ UNCHANGED <<provVars, ovVars, cfgVars, reqVars, runVars, dispVars>>

TestReportOf(records, sess) ==
  [success |-> TRUE, skipped |-> FALSE, activeSessions |-> Len(sess),
   billingRecordsGenerated |-> Len(records),
   totalPageViews |-> SumOf(records, "page_views"),
   totalAmount |-> SumOf(records, "billing_amount")]

(* mutant: the test run also writes the records it generated to the ledger *)
TestPageViewsReturns_Inserts(ok) ==
  /\ testRun.pc = "getPageViews"
  /\ LET records == generateBillingRecords(testRun.sessions, PageViewRows(usage))
     IN IF ok
          THEN /\ testRun' = [testRun EXCEPT
                      !.pc = "done", !.status = 200,
                      !.calls = @ \cup {"insertBillingRecords"},
                      !.report = TestReportOf(records, testRun.sessions)]
               /\ ledger' = TableInsert(ledger, PendingRows(records))
          ELSE /\ testRun' = [testRun EXCEPT !.pc = "done", !.status = 500]
               /\ ledger' = ledger
  /\ UNCHANGED <<provVars, ovVars, cfgVars, reqVars, dispVars, pc, runSessions,
                 billingRecords, shopResults, chargeResults, report,
                 updatedRecords, runError, reconInserts, called>>

(* getPageViewsForDate returns or throws; on return generateBillingRecords, *)
(* the totals and the report, and testBilling answers 200                   *)
TestPageViewsReturns(ok) ==
  /\ testRun.pc = "getPageViews"
  /\ LET records == generateBillingRecords(testRun.sessions, PageViewRows(usage))
     IN testRun' = IF ok
                     THEN [testRun EXCEPT
                             !.pc = "done", !.status = 200,
                             !.report = TestReportOf(records, testRun.sessions)]
                     ELSE [testRun EXCEPT !.pc = "done", !.status = 500]
  /\ UNCHANGED <<provVars, ovVars, cfgVars, reqVars, runVars, dispVars>>

TestBillingStep ==
  \/ TestBillingCalled
  \/ \E ok \in BOOLEAN : TestSessionsReturns(ok)
  \/ \E ok \in BOOLEAN : TestPageViewsReturns(ok)

(* --------------------- chargeShops called directly -------------------- *)
ChargeMaps == UNION {[D -> DirectAmounts] : D \in SUBSET Shops}

InitCommon ==
  /\ concurrency \in 1..MaxConcurrency
  /\ pc = "idle"
  /\ runSessions = <<>>
  /\ billingRecords = <<>>
  /\ shopResults = <<>>
  /\ chargeResults = <<>>
  /\ report = NoReport
  /\ ledger = <<>>
  /\ updatedRecords = <<>>
  /\ runError = NoError
  /\ reconInserts = 0
  /\ called = {}
  /\ invocation = "none"
  /\ response = NoResponse
  /\ notified = "none"
  /\ history = <<>>
  /\ dispatch = "idle"
  /\ sessions = <<>>
  /\ charges = <<>>
  /\ proc = <<>>
  /\ queue = <<>>
  /\ activeCount = 0
  /\ results = <<>>
  /\ outOfOrder = FALSE
  /\ connTest = NoConnTest
  /\ connLog = <<>>
  /\ provider = {}
  /\ calls = <<>>
  /\ testRun = NoTestRun

InitDispatch ==
  /\ InitCommon
  /\ maxRetries \in 0..MaxRetriesCfg
  /\ sessionsSrc = <<>>
  /\ usage = [s \in Shops |-> 0]

CallChargeShops ==
  /\ dispatch = "idle"
  /\ \E sess \in SeqsUpTo(Shops, MaxSessions) : \E chg \in ChargeMaps :
       ChargeShopsBegin(sess, chg)
  /\ UNCHANGED <<testVars, provVars, ovVars, cfgVars, reqVars, runVars>>

DirectReturn ==
  /\ pc = "idle"
  /\ ChargeShopsReturns
  /\ UNCHANGED <<testVars, provVars, ovVars, cfgVars, reqVars, runVars>>

NextDispatch ==
  \/ CallChargeShops
  \/ DispatcherStep
  \/ DirectReturn

SpecDispatch == InitDispatch /\ [][NextDispatch]_vars


(* ------------- chargeShops with ambiguous create failures ------------- *)
(* provider responses explored: the lookup finds the line; the create       *)
(* request answers with an id or is applied with its response lost          *)
LostLookupResponses == {"line"}
LostCreateResponses == {"id", "eLost"}

(* BATCH_SIZE=1: the tasks run one after another *)
InitLost ==
  /\ InitDispatch
  /\ concurrency = 1

LostDispatcherStep ==
  \/ LimiterStart
  \/ \E i \in Indices : TaskBody(i)
  \/ \E i \in Indices : \E r \in LostLookupResponses : LookupReturns(i, r)
  \/ \E i \in Indices : \E r \in LostCreateResponses : CreateReturns(i, r)
  \/ \E i \in Indices : SleepEnds(i)

NextLost ==
  \/ CallChargeShops
  \/ LostDispatcherStep
  \/ DirectReturn

SpecLost == InitLost /\ [][NextLost]_vars

(* ------------- two overlapping runs on the shared service ------------- *)
(* index.ts builds one BillingService per process, whose constructor builds *)
(* one ShopifyBillingService, whose constructor builds one pLimit; two      *)
(* invocations that interleave call chargeShops on that one instance.  Both *)
(* read the same session table and bill the same date, so the second call   *)
(* submits the same sessions and the same chargeMap as the first.           *)
OverlapSessions == SeqsUpTo(Shops, MaxSessions) \ {<<>>}
OverlapCharges == [s \in Shops |-> 1050]

NewCall(from, to) ==
  [from |-> from, to |-> to, returned |-> FALSE, results |-> <<>>]

(* the first run reaches chargeShops(sessions, chargeMap) *)
FirstRunCallsChargeShops ==
  /\ dispatch = "idle"
  /\ calls = <<>>
  /\ \E sess \in OverlapSessions :
       /\ ChargeShopsBegin(sess, OverlapCharges)
       /\ calls' = <<NewCall(1, Len(sess))>>
  /\ UNCHANGED <<testVars, provVars, cfgVars, reqVars, runVars>>

(* mutant: the second call brings a limiter of its own, which starts its    *)
(* first task whatever the first call has in flight                         *)
SecondCallTasks_OwnLimiter(n) ==
  [i \in 1..n |-> IF i = 1 THEN [InitialTask EXCEPT !.phase = "started"]
                           ELSE InitialTask]

(* sessions.map(session => this.concurrencyLimit(...)) of the second call:  *)
(* every task is handed to the limiter of the instance and waits there      *)
SecondCallTasks(n) == [i \in 1..n |-> InitialTask]

(* the second run reaches chargeShops while the first call is running: its  *)
(* tasks join the queue of the same limiter                                 *)
SecondRunCallsChargeShops ==
  /\ dispatch = "running"
  /\ Len(calls) = 1
  /\ ~calls[1].returned
  /\ LET n == Len(sessions)
         tasks == SecondCallTasks(n)
         waiting == SelectSeq([i \in 1..n |-> n + i],
                              LAMBDA k : tasks[k - n].phase = "queued")
     IN /\ sessions' = sessions \o sessions
        /\ proc' = proc \o tasks
        /\ queue' = queue \o waiting
        /\ calls' = Append(calls, NewCall(n + 1, 2 * n))
  /\ UNCHANGED <<testVars, provVars, cfgVars, reqVars, runVars, dispatch, charges,
                 activeCount, results, outOfOrder>>

CallSettled(c) == \A i \in calls[c].from..calls[c].to : proc[i].phase = "done"

(* await Promise.all(promises) of call c resolves and chargeShops returns *)
OverlapCallReturns(c) ==
  /\ dispatch = "running"
  /\ c \in 1..Len(calls)
  /\ ~calls[c].returned
  /\ CallSettled(c)
  /\ calls' = [calls EXCEPT ![c].returned = TRUE,
                            ![c].results =
                              PromiseAll(SubSeq(proc, calls[c].from, calls[c].to))]
  /\ dispatch' = IF \A d \in 1..Len(calls) : d = c \/ calls[d].returned
                   THEN "returned" ELSE "running"
  /\ UNCHANGED <<testVars, provVars, cfgVars, reqVars, runVars, sessions, charges, proc,
                 queue, activeCount, results, outOfOrder>>

OverlapLookupResponses == {"line"}
OverlapCreateResponses == {"id", "e5xx"}

OverlapDispatcherStep ==
  \/ LimiterStart
  \/ \E i \in Indices : TaskBody(i)
  \/ \E i \in Indices : \E r \in OverlapLookupResponses : LookupReturns(i, r)
  \/ \E i \in Indices : \E r \in OverlapCreateResponses : CreateReturns(i, r)

(* MAX_RETRIES=1: one attempt per task *)
InitOverlap ==
  /\ InitDispatch
  /\ maxRetries = 1

NextOverlap ==
  \/ FirstRunCallsChargeShops
  \/ SecondRunCallsChargeShops
  \/ OverlapDispatcherStep
  \/ \E c \in 1..2 : OverlapCallReturns(c)

SpecOverlap == InitOverlap /\ [][NextOverlap]_vars

(* ------------- chargeShops, every way a request can end --------------- *)
(* createUsageCharge also throws when the 200 response carries neither      *)
(* userErrors nor a record id ("noId")                                      *)
OutcomeCreateResponses == CreateResponses \cup {"noId"}

OutcomeDispatcherStep ==
  \/ LimiterStart
  \/ \E i \in Indices : TaskBody(i)
  \/ \E i \in Indices : \E r \in LookupResponses : LookupReturns(i, r)
  \/ \E i \in Indices : \E r \in OutcomeCreateResponses : CreateReturns(i, r)
  \/ \E i \in Indices : SleepEnds(i)

(* BATCH_SIZE=1: the tasks run one after another *)
InitOutcomes ==
  /\ InitDispatch
  /\ concurrency = 1

NextOutcomes ==
  \/ CallChargeShops
  \/ OutcomeDispatcherStep
  \/ DirectReturn

SpecOutcomes == InitOutcomes /\ [][NextOutcomes]_vars

(* ------------------------- one billing run ---------------------------- *)
Init ==
  /\ InitCommon
  /\ maxRetries \in 0..MaxRunRetries
  /\ sessionsSrc \in SeqsUpTo(Shops, MaxSessions)
  /\ usage \in [Shops -> UnitCounts]

Next ==
  \/ StartRun
  \/ \E ok \in BOOLEAN : GetSessionsReturns(ok)
  \/ \E ok \in BOOLEAN : GetPageViewsReturns(ok)
  \/ InsertPendingOk
  \/ InsertPendingFails
  \/ RunDispatcherStep
  \/ RunChargeShopsReturns
  \/ InsertReconOk
  \/ InsertReconFails
  \/ \E reads \in ContextReads : CatchReturns(reads)
  \/ \E slack \in SlackDeliveries : ProcessBillingResponds(slack)

Spec == Init /\ [][Next]_vars

(* ------------------- one billing run, scheduled fairly ---------------- *)
(* provider responses explored: a line id, no line, a charge id, and one    *)
(* thrown error, which is what sends a task through the retry loop          *)
FairLookupResponses == {"line", "noline", "e5xx"}
FairCreateResponses == {"id", "e5xx"}

FairDispatcherStep ==
  /\ pc = "dispatch"
  /\ \/ LimiterStart
     \/ \E i \in Indices : TaskBody(i)
     \/ \E i \in Indices : \E r \in FairLookupResponses : LookupReturns(i, r)
     \/ \E i \in Indices : \E r \in FairCreateResponses : CreateReturns(i, r)
     \/ \E i \in Indices : SleepEnds(i)

(* the steps of a started run: every awaited call returns or throws (the    *)
(* provider requests carry a timeout), every backoff timer fires and the    *)
(* limiter starts the queued tasks                                          *)
RunProgress ==
  \/ \E ok \in BOOLEAN : GetSessionsReturns(ok)
  \/ \E ok \in BOOLEAN : GetPageViewsReturns(ok)
  \/ InsertPendingOk
  \/ InsertPendingFails
  \/ FairDispatcherStep
  \/ RunChargeShopsReturns
  \/ InsertReconOk
  \/ InsertReconFails
  \/ \E reads \in ContextReads : CatchReturns(reads)

(* MAX_RETRIES=2: each task may be retried once; shop a has page views,     *)
(* shop b has none                                                          *)
InitFair ==
  /\ Init
  /\ maxRetries = 2
  /\ usage = [s \in Shops |-> IF s = "a" THEN 500000 ELSE 0]

NextFair ==
  \/ StartRun
  \/ RunProgress

FairSpec == InitFair /\ [][NextFair]_vars /\ WF_vars(RunProgress)

(* ------------------- testConnection called directly ------------------- *)
InitConn ==
  /\ InitCommon
  /\ maxRetries \in 0..MaxRunRetries
  /\ sessionsSrc = <<>>
  /\ usage = [s \in Shops |-> 0]

NextConn ==
  \/ \E shop \in Shops : TestConnectionCalled(shop)
  \/ \E r \in ConnResponses : TestRequestSettles(r)

SpecConn == InitConn /\ [][NextConn]_vars

(* -------------------- the same date billed twice ---------------------- *)
(* what an invocation leaves behind when the next one starts *)
RunSummary ==
  [success |-> report.success, skipped |-> report.skipped,
   chargeResults |-> chargeResults, ledgerLen |-> Len(ledger)]

(* processBilling is invoked again after it has responded: the module-level *)
(* services keep no state of the earlier run, the locals of                 *)
(* processDailyBilling and chargeShops are fresh, and the table keeps its   *)
(* rows                                                                     *)
StartSecondRun ==
  /\ pc = "done"
  /\ Responded
  /\ invocation = "first"
  /\ invocation' = "second"
  /\ history' = Append(history, RunSummary)
  /\ pc' = "getSessions"
  /\ called' = {"getActiveShopifySessions"}
  /\ runSessions' = <<>>
  /\ billingRecords' = <<>>
  /\ shopResults' = <<>>
  /\ chargeResults' = <<>>
  /\ report' = NoReport
  /\ updatedRecords' = <<>>
  /\ runError' = NoError
  /\ reconInserts' = 0
  /\ response' = NoResponse
  /\ notified' = "none"
  /\ dispatch' = "idle"
  /\ sessions' = <<>>
  /\ charges' = <<>>
  /\ proc' = <<>>
  /\ queue' = <<>>
  /\ activeCount' = 0
  /\ results' = <<>>
  /\ outOfOrder' = FALSE
  /\ UNCHANGED <<testVars, provVars, ovVars, cfgVars, ledger, connVars>>

(* two invocations in a row with BATCH_SIZE=1 and MAX_RETRIES=1: one task  *)
(* at a time, one attempt each                                              *)
InitRerun ==
  /\ Init
  /\ concurrency = 1
  /\ maxRetries = 1

(* provider responses explored across the two invocations *)
RerunLookupResponses == {"line", "noline"}
RerunCreateResponses == {"id", "e5xx"}

(* the dispatcher steps enabled when every task has a single attempt *)
RerunDispatcherStep ==
  /\ pc = "dispatch"
  /\ \/ LimiterStart
     \/ \E i \in Indices : TaskBody(i)
     \/ \E i \in Indices : \E r \in RerunLookupResponses : LookupReturns(i, r)
     \/ \E i \in Indices : \E r \in RerunCreateResponses : CreateReturns(i, r)

NextRerun ==
  \/ StartRun
  \/ \E ok \in BOOLEAN : GetSessionsReturns(ok)
  \/ \E ok \in BOOLEAN : GetPageViewsReturns(ok)
  \/ InsertPendingOk
  \/ InsertPendingFails
  \/ RerunDispatcherStep
  \/ RunChargeShopsReturns
  \/ InsertReconOk
  \/ InsertReconFails
  \/ \E reads \in ContextReads : CatchReturns(reads)
  \/ \E slack \in SlackDeliveries : ProcessBillingResponds(slack)
  \/ StartSecondRun

SpecRerun == InitRerun /\ [][NextRerun]_vars

(* ----------------- a test run beside a billing run -------------------- *)
(* testBilling may be invoked before, during or after a billing run of the  *)
(* same process (BATCH_SIZE=1, MAX_RETRIES=1)                               *)
NextTest ==
  \/ StartRun
  \/ \E ok \in BOOLEAN : GetSessionsReturns(ok)
  \/ \E ok \in BOOLEAN : GetPageViewsReturns(ok)
  \/ InsertPendingOk
  \/ InsertPendingFails
  \/ RerunDispatcherStep
  \/ RunChargeShopsReturns
  \/ InsertReconOk
  \/ InsertReconFails
  \/ \E reads \in ContextReads : CatchReturns(reads)
  \/ TestBillingStep

SpecTest == InitRerun /\ [][NextTest]_vars

(* ------------- billing amounts of one shop, count by count ------------ *)
InitAmount ==
  /\ InitCommon
  /\ concurrency = 1
  /\ maxRetries = 1
  /\ sessionsSrc = <<"a">>
  /\ \E u \in 0..MaxUnitCount : usage = [s \in Shops |-> IF s = "a" THEN u ELSE 0]

NextAmount ==
  \/ StartRun
  \/ GetSessionsReturns(TRUE)
  \/ GetPageViewsReturns(TRUE)

SpecAmount == InitAmount /\ [][NextAmount]_vars

(* ------------- the run of three shops A, B and C ---------------------- *)
ScenarioSessions == <<"A", "B", "C">>

ScenarioUsage == ("A" :> 2000000) @@ ("B" :> 0) @@ ("C" :> 500000)

InitScenario ==
  /\ InitCommon
  /\ maxRetries \in 0..MaxRunRetries
  /\ sessionsSrc = ScenarioSessions
  /\ usage = ScenarioUsage

SpecScenario == InitScenario /\ [][Next]_vars

(* ------------------------------ claims -------------------------------- *)
(* a request to the charge provider has been issued for task i *)
CallIssued(i) == proc[i].attempt >= 1

ProviderCallIssued == \E i \in Indices : CallIssued(i)

InFlight == {i \in Indices : proc[i].phase \in {"started", "lookup", "create", "sleep"}}

(* the ledger holds one pending row per session of the run, in one batch *)
PendingBatchInserted ==
  /\ runSessions /= <<>>
  /\ Len(ledger) >= Len(runSessions)
  /\ \A i \in 1..Len(runSessions) :
       /\ ledger[i].shop = runSessions[i]
       /\ ledger[i].shopify_billing_status = "pending"

(* C1: within a run, no charge provider call has been issued in any state   *)
(* in which the pending ledger batch for all tenants is not yet inserted.   *)
C1_PendingBeforeCharge == ProviderCallIssued => PendingBatchInserted

C1_Witness ==
  /\ PendingBatchInserted
  /\ \E i \in Indices : proc[i].phase = "lookup"

(* C2: if the pending ledger insert fails, chargeShops is never called (no  *)
(* provider call for any tenant), no reconciliation insert is attempted,    *)
(* and the report has success = false with the error.                       *)
C2_PendingFailureAborts ==
  runError = "pending insert failed" =>
    /\ dispatch = "idle"
    /\ ~ProviderCallIssued
    /\ reconInserts = 0
    /\ pc \in {"catch", "done"}
    /\ pc = "done" => /\ report.success = FALSE
                      /\ report.errorMessage = "pending insert failed"

C2_Witness ==
  /\ pc = "done"
  /\ runError = "pending insert failed"
  /\ \E i \in 1..Len(billingRecords) : billingRecords[i].billing_amount > 0

(* C3: the number of per-tenant charge procedures started and not yet       *)
(* settled never exceeds the concurrency limit K; the rest stay queued.     *)
C3_BoundedConcurrency ==
  /\ Cardinality(InFlight) <= concurrency
  /\ activeCount = Cardinality(InFlight)
  /\ \A i \in Indices :
       proc[i].phase = "queued" <=> \E k \in 1..Len(queue) : queue[k] = i

C3_Witness ==
  /\ Cardinality(InFlight) = concurrency
  /\ queue /= <<>>
  /\ \E i \in Indices : proc[i].phase = "create"


(* messages of the errors the specification classifies as non-retryable:    *)
(* authentication failure (401) and a business error (userErrors)           *)
NonRetryableMessages == {"Invalid access token", "GraphQL errors: userErrors"}

(* C4: a provider call that fails with a non-retryable error fails the      *)
(* tenant at once: no backoff sleep follows such an error and the tenant    *)
(* is not attempted again.                                                  *)
C4_NonRetryableFailsAtOnce ==
  \A i \in Indices :
    proc[i].phase = "sleep" => proc[i].errorMessage \notin NonRetryableMessages

(* task j issues a provider request (line lookup or charge creation) in the step *)
IssuesCall(j) ==
  /\ proc'[j].phase \in {"lookup", "create"}
  /\ <<proc'[j].phase, proc'[j].attempt>> /= <<proc[j].phase, proc[j].attempt>>

(* a create-charge call for the tenant has returned a charge id *)
ChargedShop(shop) ==
  \E i \in Indices : /\ sessions[i] = shop
                     /\ proc[i].outcome.status = "success"

(* C5: once a create-charge call for a tenant has returned a charge id, no  *)
(* further provider call is issued for that tenant in the run, and its      *)
(* outcome stays success with that id.                                      *)
C5_OneChargeResultPerTenant ==
  [][\A j \in Indices :
       ChargedShop(sessions[j]) =>
         /\ ~IssuesCall(j)
         /\ proc[j].outcome.status = "success" => proc'[j].outcome = proc[j].outcome
    ]_vars

Max(a, b) == IF a >= b THEN a ELSE b

(* the sleeps taken so far are 1 s, 2 s, 4 s, ...: the n-th is baseDelay * 2^(n-1) *)
DoublingSleeps(i) ==
  /\ \A n \in 1..Len(proc[i].sleeps) : proc[i].sleeps[n] = 1000 * Pow2(n - 1)
  /\ \A n \in 2..Len(proc[i].sleeps) : proc[i].sleeps[n] = 2 * proc[i].sleeps[n - 1]
  /\ Len(proc[i].sleeps) =
       IF proc[i].phase = "sleep" THEN proc[i].attempt ELSE Max(proc[i].attempt, 1) - 1

(* C6 as stated: at most maxRetries attempts in total, with doubling sleeps *)
(* between them, and a success on a later attempt is the outcome.           *)
C6_AtMostMaxRetriesAttempts ==
  \A i \in Indices :
    /\ proc[i].attempt <= maxRetries
    /\ DoublingSleeps(i)

(* C6 amended: at most max(1, maxRetries) attempts in total; the sleep      *)
(* before attempt n+1 is baseDelay * 2^(n-1); an attempt that obtains a     *)
(* charge id, the first or a later one, settles the task with success.      *)
C6_BoundedRetriesWithBackoff ==
  \A i \in Indices :
    /\ proc[i].attempt <= Max(1, maxRetries)
    /\ DoublingSleeps(i)
    /\ proc[i].outcome.chargeId /= NoChargeId =>
         /\ proc[i].outcome.status = "success"
         /\ proc[i].outcome.chargeId = <<i, proc[i].attempt>>

C6_Witness ==
  \E i \in Indices :
    /\ proc[i].attempt = 3
    /\ proc[i].sleeps = <<1000, 2000>>
    /\ proc[i].outcome.status = "success"


(* the task's own state as chargeShopWithRetry drives it *)
Progress(i) == <<proc[i].attempt, proc[i].errorMessage, proc[i].sleeps, proc[i].outcome>>

ProgressNext(i) ==
  <<proc'[i].attempt, proc'[i].errorMessage, proc'[i].sleeps, proc'[i].outcome>>

(* task y settles with a failed outcome in the step *)
FailsNow(y) ==
  /\ proc[y].outcome.status = "none"
  /\ proc'[y].outcome.status = "failed"

(* C7: per-tenant isolation.  A step in which tenant Y fails leaves every   *)
(* other tenant X's procedure and outcome as they were (at most the limiter *)
(* starts a queued X); no step advances two procedures; a settled outcome   *)
(* never changes; chargeShops never rejects and returns X's own outcome.    *)
C7_FailureIsolation ==
  /\ [][\A x \in Indices :
          /\ \A y \in Indices \ {x} :
               /\ FailsNow(y) =>
                    /\ ProgressNext(x) = Progress(x)
                    /\ \/ proc'[x].phase = proc[x].phase
                       \/ proc[x].phase = "queued" /\ proc'[x].phase = "started"
               /\ ~(ProgressNext(x) /= Progress(x) /\ ProgressNext(y) /= Progress(y))
          /\ proc[x].outcome.status /= "none" => proc'[x].outcome = proc[x].outcome
       ]_vars
  /\ [](dispatch /= "rejected")
  /\ [](dispatch = "returned" =>
          \A x \in Indices : /\ proc[x].phase = "done"
                             /\ results[x] = proc[x].outcome)

C7_Witness ==
  /\ dispatch = "returned"
  /\ \E x, y \in Indices :
       /\ x /= y
       /\ results[y].status = "failed"
       /\ proc[y].attempt >= 2
       /\ results[x].status = "success"
       /\ proc[x].attempt = 1

(* C8: a queued tenant is never kept waiting while every concurrency slot   *)
(* is held and one of the holders is retrying or sleeping in retry backoff. *)
C8_NoWaitBehindRetry ==
  \A i \in Indices :
    proc[i].phase = "queued" =>
      ~(/\ activeCount >= concurrency
        /\ \E j \in Indices :
             \/ proc[j].phase = "sleep"
             \/ proc[j].phase \in {"lookup", "create"} /\ proc[j].attempt >= 2)

(* the charge map has no entry for the tenant of task i, or the entry is 0 *)
ZeroOrMissing(i) ==
  \/ sessions[i] \notin DOMAIN charges
  \/ charges[sessions[i]] = 0

(* C9: a tenant whose amount is 0 or missing from the charge map never has  *)
(* a provider call made for it and is classified skipped with amount 0.     *)
C9_ZeroAmountSkipped ==
  \A i \in Indices :
    ZeroOrMissing(i) =>
      /\ ~CallIssued(i)
      /\ proc[i].phase \in {"queued", "started", "done"}
      /\ proc[i].sleeps = <<>>
      /\ proc[i].phase = "done" =>
           /\ proc[i].outcome.status = "skipped"
           /\ proc[i].outcome.amount = 0
           /\ proc[i].outcome.shop = sessions[i]
      /\ dispatch = "returned" =>
           /\ results[i].status = "skipped"
           /\ results[i].amount = 0

C9_Witness ==
  /\ dispatch = "returned"
  /\ \E i, j \in Indices :
       /\ sessions[i] \notin DOMAIN charges
       /\ results[i].status = "skipped"
       /\ sessions[j] \in DOMAIN charges
       /\ charges[sessions[j]] = 0
       /\ results[j].status = "skipped"

(* C10: chargeShops returns exactly one outcome per submitted session, in   *)
(* input order, whatever order the procedures completed in.                 *)
C10_OneOutcomePerSessionInOrder ==
  dispatch = "returned" =>
    /\ Len(results) = Len(sessions)
    /\ \A i \in 1..Len(sessions) :
         /\ results[i].shop = sessions[i]
         /\ results[i].status \in {"success", "failed", "skipped"}
         /\ results[i] = proc[i].outcome

C10_Witness ==
  /\ dispatch = "returned"
  /\ outOfOrder
  /\ Len(results) = 2
  /\ results[1].shop /= results[2].shop
  /\ results[1].status = "failed"
  /\ results[2].status = "success"

(* the run has ended and processDailyBilling has returned its report *)
RunEnded == pc = "done"

(* C11: a failure of the reconciliation insert after the charges were       *)
(* dispatched is non-fatal: the report still has success = true and         *)
(* carries the per-tenant charge outcomes; no charge is retried or undone.  *)
C11_ReconFailureNonFatal ==
  (RunEnded /\ runError = "reconciliation insert failed") =>
    /\ report.success = TRUE
    /\ report.chargeResults = chargeResults
    /\ results = chargeResults
    /\ \A i \in Indices : proc[i].phase = "done"

(* C12: processBilling responds 200 exactly when the run ended Done or      *)
(* Skipped (report success = true), and 500 when the run ended Failed       *)
(* (report success = false).                                                *)
C12_StatusReflectsRun ==
  Responded =>
    /\ response.status = 200 <=> report.success
    /\ ~report.success => response.status = 500

(* the outcome fields of a reconciliation record agree with outcome o *)
RecordCarries(rec, o) ==
  CASE o.status = "success" ->
         /\ rec.shopify_billing_status = "success"
         /\ rec.shopify_charge_id = o.chargeId
         /\ rec.shopify_charge_id /= NoChargeId
         /\ rec.shopify_processed_at
    [] o.status = "failed" ->
         /\ rec.shopify_billing_status = "failed"
         /\ rec.shopify_error_message = o.error
         /\ rec.shopify_error_message /= NoError
         /\ ~rec.shopify_processed_at
    [] o.status = "skipped" ->
         /\ rec.shopify_billing_status = "pending"
         /\ rec.shopify_charge_id = NoChargeId
         /\ ~rec.shopify_processed_at
    [] OTHER -> FALSE

(* the shop of the i-th outcome has no other outcome in chargeResults *)
OnlyOutcomeOfItsShop(i) ==
  \A j \in 1..Len(chargeResults) :
    j /= i => chargeResults[j].shop /= chargeResults[i].shop

C17_NoTenantsSkips ==
  (RunEnded /\ sessionsSrc = <<>> /\ runError = NoError) =>
    /\ report.skipped
    /\ report.success
    /\ report.skipReason = "No active sessions found"
    /\ called = {"getActiveShopifySessions"}
    /\ ledger = <<>>
    /\ reconInserts = 0
    /\ dispatch = "idle"
    /\ ~ProviderCallIssued

C17_Witness ==
  /\ RunEnded
  /\ sessionsSrc = <<>>
  /\ report.skipped
  /\ \E s \in Shops : usage[s] > 0

ReadErrors == {"sessions query failed", "page views query failed"}

(* C18: if reading the tenant identities or the usage counts fails, the run *)
(* ends Failed (report success = false with the error message) and no       *)
(* ledger insert and no charge provider call is made in that run.           *)
C18_ReadFailureAborts ==
  runError \in ReadErrors =>
    /\ pc \in {"catch", "done"}
    /\ "insertBillingRecords" \notin called
    /\ "chargeShops" \notin called
    /\ ledger = <<>>
    /\ reconInserts = 0
    /\ dispatch = "idle"
    /\ ~ProviderCallIssued
    /\ RunEnded => /\ report.success = FALSE
                   /\ report.skipped = FALSE
                   /\ report.errorMessage = runError

C18_Witness ==
  /\ RunEnded
  /\ runError = "page views query failed"
  /\ report.errorMessage = "page views query failed"
  /\ \E i \in 1..Len(runSessions) : usage[runSessions[i]] > 0

(* both ledger inserts of the run have succeeded *)
BothInsertsDone ==
  /\ runSessions /= <<>>
  /\ Len(ledger) = 2 * Len(runSessions)

(* C19: per-tenant charge failures are non-fatal: when the pending insert   *)
(* and the reconciliation insert have succeeded the run is Done with        *)
(* success = true, the response status is 200 however many charges failed,  *)
(* and each failed charge is in the outcome list of the report with status  *)
(* failed and an error message.                                             *)
C19_ChargeFailuresNonFatal ==
  BothInsertsDone =>
    /\ RunEnded
    /\ report.success
    /\ ~report.skipped
    /\ report.chargeResults = chargeResults
    /\ \A i \in Indices :
         proc[i].outcome.status = "failed" =>
           /\ report.chargeResults[i].shop = sessions[i]
           /\ report.chargeResults[i].status = "failed"
           /\ report.chargeResults[i].error /= NoError
           /\ \E k \in 1..Len(report.shopResults) :
                report.shopResults[k].shop = sessions[i]
    /\ Responded => /\ response.status = 200
                    /\ response.success
                    /\ response.billingDetails = report

C19_Witness ==
  /\ BothInsertsDone
  /\ Responded
  /\ response.status = 200
  /\ Len(sessions) = 2
  /\ \A i \in Indices : report.chargeResults[i].status = "failed"


NoSubscription == "No active usage-based subscription found"

(* C20: when the line lookup of a tenant succeeds but finds no usage-based  *)
(* subscription line, the tenant is classified failed with that reason at   *)
(* once: the reason is never caught as an error to retry or sleep on, and   *)
(* the step that classifies it starts from the lookup, adds no attempt and  *)
(* no sleep, and is final, so no charge-creation call follows.              *)
C20_NoSubscriptionFailsWithoutRetry ==
  /\ [](\A i \in Indices :
          /\ proc[i].errorMessage /= NoSubscription
          /\ proc[i].outcome.error = NoSubscription =>
               /\ proc[i].phase = "done"
               /\ proc[i].outcome.status = "failed"
               /\ proc[i].outcome.chargeId = NoChargeId)
  /\ [][\A i \in Indices :
          /\ (proc[i].outcome.error /= NoSubscription
              /\ proc'[i].outcome.error = NoSubscription) =>
               /\ proc[i].phase = "lookup"
               /\ proc'[i].attempt = proc[i].attempt
               /\ proc'[i].sleeps = proc[i].sleeps
          /\ proc[i].outcome.error = NoSubscription =>
               /\ Len(proc') = Len(proc)
               /\ proc'[i] = proc[i]
       ]_vars

C20_Witness ==
  /\ maxRetries >= 2
  /\ \E i \in Indices :
       /\ proc[i].outcome.error = NoSubscription
       /\ proc[i].outcome.status = "failed"
       /\ proc[i].attempt = 1
       /\ proc[i].sleeps = <<>>
       /\ AmountFor(charges, sessions[i]) > 0

(* number of ledger rows the table held when the current invocation began *)
RunOffset == IF invocation = "second" THEN history[1].ledgerLen ELSE 0

(* the current run has ended Done *)
RunDone == RunEnded /\ report.success /\ ~report.skipped

(* C14: the ledger is append-only: every step leaves the rows already       *)
(* inserted as they are, in place (so a pending row stays pending), and a   *)
(* run that ends Done has appended, after its pending rows, one             *)
(* reconciliation row per pending row with the same tenant key.             *)
C14_LedgerAppendOnly ==
  /\ [][/\ Len(ledger') >= Len(ledger)
        /\ SubSeq(ledger', 1, Len(ledger)) = ledger]_vars
  /\ [](RunDone =>
          LET n == Len(runSessions) IN
          /\ Len(ledger) = RunOffset + 2 * n
          /\ \A i \in 1..n :
               /\ ledger[RunOffset + i].shopify_billing_status = "pending"
               /\ ledger[RunOffset + i].shop = runSessions[i]
               /\ ledger[RunOffset + n + i].shop = runSessions[i]
               /\ ledger[RunOffset + n + i] = updatedRecords[i])

C14_Witness ==
  /\ invocation = "second"
  /\ RunDone
  /\ history[1].success
  /\ RunOffset = 4
  /\ ledger[1].shopify_billing_status = "pending"
  /\ ledger[3].shopify_billing_status = "success"
  /\ ledger[3].shop = ledger[1].shop
  /\ ledger[7].shopify_billing_status = "failed"
  /\ ledger[7].shop = ledger[1].shop

(* number of rows of the table for a shop *)
RowsOf(tbl, shop) == Cardinality({k \in 1..Len(tbl) : tbl[k].shop = shop})

(* the first invocation ended Done *)
FirstRunDone == history /= <<>> /\ history[1].success /\ ~history[1].skipped

(* C15: inserts are not idempotent and nothing suppresses duplicates: when  *)
(* the same date is billed twice with the same inputs and both runs end     *)
(* Done, the ledger holds twice the rows of the single run, for every       *)
(* tenant, and the second pending set repeats the tenants, counts and      *)
(* amounts of the first.                                                    *)
C15_RerunDoublesLedger ==
  (invocation = "second" /\ RunDone /\ FirstRunDone) =>
    LET n == Len(sessionsSrc)
        single == SubSeq(ledger, 1, history[1].ledgerLen)
    IN /\ Len(single) = 2 * n
       /\ Len(ledger) = 2 * Len(single)
       /\ \A s \in Shops : RowsOf(ledger, s) = 2 * RowsOf(single, s)
       /\ SubSeq(ledger, Len(single) + 1, Len(single) + n) = SubSeq(ledger, 1, n)

C15_Witness ==
  /\ invocation = "second"
  /\ RunDone
  /\ FirstRunDone
  /\ Len(ledger) = 8
  /\ \A s \in Shops : RowsOf(ledger, s) = 4

(* C16: nothing guards against billing a date twice: in a second run every  *)
(* session whose billing amount is positive is dispatched again (a provider *)
(* call is issued, the outcome is success or failed, never skipped),        *)
(* whatever rows and outcomes the first run left.                           *)
C16_RerunChargesAgain ==
  invocation = "second" =>
    /\ dispatch /= "idle" => sessions = sessionsSrc
    /\ \A i \in Indices :
         calculateBillingAmount(usage[sessions[i]]) > 0 =>
           /\ proc[i].phase \notin {"queued", "started"} => CallIssued(i)
           /\ proc[i].phase = "done" =>
                proc[i].outcome.status \in {"success", "failed"}

C16_Witness ==
  /\ invocation = "second"
  /\ \E i \in Indices :
       /\ i <= Len(history[1].chargeResults)
       /\ history[1].chargeResults[i].shop = sessions[i]
       /\ history[1].chargeResults[i].status = "success"
       /\ proc[i].outcome.status = "success"
       /\ \E k \in 1..history[1].ledgerLen :
            /\ ledger[k].shop = sessions[i]
            /\ ledger[k].shopify_billing_status = "success"

(* the failed outcome of task i for an error with message msg *)
FailedWith(i, msg) ==
  [shop |-> sessions[i], status |-> "failed", chargeId |-> NoChargeId,
   error |-> msg, amount |-> AmountFor(charges, sessions[i])]

(* C21: when the last attempt of a tenant throws, the outcome is failed,    *)
(* its error message is the message of the error thrown in that step (the   *)
(* errors of earlier attempts are not kept), the attempts are used up, and  *)
(* the outcome carries the tenant's amount.                                 *)
C21_LastErrorReported ==
  /\ [][\A i \in Indices :
          /\ \A r \in ErrResponses :
               (LookupReturns(i, r) /\ FailsNow(i)) =>
                 /\ proc'[i].outcome = FailedWith(i, ErrorMessage(r))
                 /\ proc[i].attempt = Max(1, maxRetries)
          /\ \A r \in CreateResponses \ {"id"} :
               (CreateReturns(i, r) /\ FailsNow(i)) =>
                 /\ proc'[i].outcome = FailedWith(i, ErrorMessage(r))
                 /\ proc[i].attempt = Max(1, maxRetries)
       ]_vars
  /\ [](\A i \in Indices :
          proc[i].outcome.status = "failed" =>
            /\ proc[i].outcome.error /= NoError
            /\ proc[i].outcome.amount = AmountFor(charges, sessions[i])
            /\ proc[i].outcome.amount > 0)

C21_Witness ==
  /\ maxRetries = 3
  /\ \E i \in Indices :
       /\ proc[i].outcome.status = "failed"
       /\ proc[i].outcome.error = "Rate limit exceeded"
       /\ proc[i].outcome.amount = 1050
       /\ proc[i].attempt = 3
       /\ proc[i].sleeps = <<1000, 2000>>

(* the tenant keys of the sessions of the run *)
TenantKeys == {runSessions[i] : i \in 1..Len(runSessions)}

(* number of elements of a sequence of records whose shop is the key *)
CountFor(seq, shop) == Cardinality({k \in 1..Len(seq) : seq[k].shop = shop})

(* the rows the current run has inserted *)
RunRows == SubSeq(ledger, RunOffset + 1, Len(ledger))

PendingRunRows == SubSeq(RunRows, 1, Len(runSessions))

ReconRunRows == SubSeq(RunRows, Len(runSessions) + 1, Len(RunRows))

(* C22: after a run that ends Done, every tenant key of the identity set    *)
(* has exactly one pending ledger record, exactly one charge outcome and    *)
(* exactly one reconciliation ledger record from that run.                  *)
C22_OneRecordChainPerTenant ==
  RunDone =>
    \A s \in TenantKeys :
      /\ CountFor(PendingRunRows, s) = 1
      /\ CountFor(chargeResults, s) = 1
      /\ CountFor(ReconRunRows, s) = 1

(* a charge was created at the provider for the tenant in this run *)
ChargeCreated(shop) ==
  \E i \in Indices : /\ sessions[i] = shop
                     /\ proc[i].outcome.status = "success"

(* the latest ledger row of the tenant *)
LatestRow(shop) ==
  ledger[CHOOSE k \in 1..Len(ledger) :
           /\ ledger[k].shop = shop
           /\ \A j \in 1..Len(ledger) : ledger[j].shop = shop => j <= k]

(* C23: when a run ends Done, the latest ledger record of every tenant has  *)
(* status success with a charge id if and only if a charge was created for  *)
(* that tenant in this run, and has status failed or pending otherwise.     *)
C23_LedgerAgreesWithProvider ==
  RunDone =>
    \A s \in TenantKeys :
      /\ ChargeCreated(s) <=>
           /\ LatestRow(s).shopify_billing_status = "success"
           /\ LatestRow(s).shopify_charge_id /= NoChargeId
      /\ ~ChargeCreated(s) =>
           LatestRow(s).shopify_billing_status \in {"failed", "pending"}

(* the billing records of the run have been generated *)
RecordsGenerated == "insertBillingRecords" \in called

(* C24: generateBillingRecords gives exactly one record per session, in     *)
(* session order, whose page views are the shop's count for the date, or 0  *)
(* when the shop has no page-view row; a shop without page views still has  *)
(* its record, with amount 0, and a page-view row of a shop that has no     *)
(* session gives no record.                                                 *)
C24_OneRecordPerIdentity ==
  RecordsGenerated =>
    /\ Len(billingRecords) = Len(runSessions)
    /\ \A i \in 1..Len(runSessions) :
         /\ billingRecords[i].shop = runSessions[i]
         /\ billingRecords[i].page_views = usage[runSessions[i]]
         /\ usage[runSessions[i]] = 0 =>
              /\ billingRecords[i].page_views = 0
              /\ billingRecords[i].billing_amount = 0
    /\ \A k \in 1..Len(billingRecords) : billingRecords[k].shop \in TenantKeys

C24_Witness ==
  /\ RecordsGenerated
  /\ Len(billingRecords) = 2
  /\ billingRecords[1].page_views = 0
  /\ billingRecords[2].page_views = 0
  /\ billingRecords[1].shop = billingRecords[2].shop
  /\ \E s \in Shops : s \notin TenantKeys /\ usage[s] > 0

(* n / d rounded to the nearest integer, a half rounded up *)
RoundHalfUp(n, d) == (2 * n + d) \div (2 * d)

(* C25: for every unit count u and the rate 10 per million, the amount in   *)
(* cents is u * 10 * 100 / 1,000,000 rounded to the nearest integer, is     *)
(* never negative, and amount(1,000,000) = 10.00, amount(0) = 0.00,         *)
(* amount(500,000) = 5.00, amount(1) = 0.00.                                *)
C25_AmountIsRounded ==
  /\ \A i \in 1..Len(billingRecords) :
       /\ billingRecords[i].billing_amount =
            RoundHalfUp(billingRecords[i].page_views * ratePerMillion * 100, 1000000)
       /\ billingRecords[i].billing_amount >= 0
  /\ RecordsGenerated =>
       /\ calculateBillingAmount(1000000) = 1000
       /\ calculateBillingAmount(0) = 0
       /\ calculateBillingAmount(500000) = 500
       /\ calculateBillingAmount(1) = 0

(* C26: with sessions [A, B, C], page views A: 2,000,000, B: 0, C: 500,000  *)
(* and rate 10, the pending rows have amounts 20.00, 0.00 and 5.00; A and   *)
(* C are attempted and B is skipped; when A's charge succeeds and C's       *)
(* fails for good, the reconciliation rows are A success with a charge id,  *)
(* B pending, C failed with an error message, and the report has success    *)
(* true, billingRecordsGenerated 3 and totalAmount 25.00.                   *)
C26_EndToEndScenario ==
  /\ RecordsGenerated =>
       /\ Len(billingRecords) = 3
       /\ billingRecords[1].billing_amount = 2000
       /\ billingRecords[2].billing_amount = 0
       /\ billingRecords[3].billing_amount = 500
  /\ Len(ledger) >= 3 =>
       \A i \in 1..3 :
         /\ ledger[i].shop = ScenarioSessions[i]
         /\ ledger[i].shopify_billing_status = "pending"
         /\ ledger[i].billing_amount = billingRecords[i].billing_amount
  /\ dispatch /= "idle" =>
       /\ ~CallIssued(2)
       /\ proc[2].phase = "done" => proc[2].outcome.status = "skipped"
       /\ \A i \in {1, 3} :
            proc[i].phase = "done" =>
              /\ CallIssued(i)
              /\ proc[i].outcome.status \in {"success", "failed"}
  /\ (/\ RunDone
      /\ proc[1].outcome.status = "success"
      /\ proc[3].outcome.status = "failed") =>
       /\ Len(ledger) = 6
       /\ ledger[4].shop = "A"
       /\ ledger[4].shopify_billing_status = "success"
       /\ ledger[4].shopify_charge_id /= NoChargeId
       /\ ledger[5].shop = "B"
       /\ ledger[5].shopify_billing_status = "pending"
       /\ ledger[6].shop = "C"
       /\ ledger[6].shopify_billing_status = "failed"
       /\ ledger[6].shopify_error_message /= NoError
       /\ report.success
       /\ report.billingRecordsGenerated = 3
       /\ report.totalAmount = 2500

C26_Witness ==
  /\ RunDone
  /\ maxRetries = 2
  /\ proc[1].outcome.status = "success"
  /\ proc[3].outcome.status = "failed"
  /\ proc[3].attempt = 2
  /\ report.totalAmount = 2500
  /\ Len(ledger) = 6

LedgerStatuses == {"pending", "success", "failed"}

(* C27: every ledger row has a status in {pending, success, failed}: the    *)
(* outcome status skipped is never written, and every row of the pending    *)
(* batch of a run has status pending and no charge id.                      *)
C27_LedgerStatusDomain ==
  /\ \A k \in 1..Len(ledger) : ledger[k].shopify_billing_status \in LedgerStatuses
  /\ \A i \in 1..Len(updatedRecords) :
       updatedRecords[i].shopify_billing_status \in LedgerStatuses
  /\ Len(RunRows) >= Len(runSessions) =>
       \A i \in 1..Len(runSessions) :
         /\ PendingRunRows[i].shopify_billing_status = "pending"
         /\ PendingRunRows[i].shopify_charge_id = NoChargeId
         /\ ~PendingRunRows[i].shopify_processed_at

C27_Witness ==
  /\ RunDone
  /\ Len(ReconRunRows) = 2
  /\ chargeResults[1].status = "skipped"
  /\ ReconRunRows[1].shopify_billing_status = "pending"
  /\ chargeResults[2].status = "success"
  /\ ReconRunRows[2].shopify_billing_status = "success"

(* the three ways a run ends *)
EndedDone == RunEnded /\ report.success /\ ~report.skipped

EndedSkipped == RunEnded /\ report.success /\ report.skipped

EndedFailed == RunEnded /\ ~report.success /\ ~report.skipped

(* C28: every started run terminates: when every awaited call returns or    *)
(* throws and every backoff sleep ends, processDailyBilling reaches exactly *)
(* one of Done, Skipped and Failed and stays there, and every charge        *)
(* procedure of the run yields an outcome after at most max(1, maxRetries)  *)
(* attempts.                                                                *)
C28_RunTerminates ==
  /\ (pc /= "idle") ~> (EndedDone \/ EndedSkipped \/ EndedFailed)
  /\ [](RunEnded => (EndedDone \/ EndedSkipped \/ EndedFailed))
  /\ [][RunEnded => (pc' = pc /\ report' = report)]_vars
  /\ (dispatch = "running") ~>
       (\A i \in Indices : /\ proc[i].phase = "done"
                           /\ proc[i].outcome.status /= "none")
  /\ [](\A i \in Indices : proc[i].attempt <= Max(1, maxRetries))

C28_Witness ==
  /\ EndedDone
  /\ maxRetries = 2
  /\ Len(sessions) = 2
  /\ proc[1].attempt = 2
  /\ proc[1].outcome.status = "failed"
  /\ proc[2].attempt = 2
  /\ proc[2].outcome.status = "success"

(* the answer processBilling builds from billingResult alone *)
AnswerFor(billingResult) ==
  [status |-> 200, success |-> TRUE,
   message |-> IF billingResult.skipped
                 THEN "Billing process skipped"
                 ELSE "Billing process completed successfully",
   billingDetails |-> billingResult]

(* C29: a failure to deliver the result notification never changes the      *)
(* outcome of the run: sendBatchResult never throws, the HTTP status and    *)
(* the body of processBilling depend on the result of the run only and are  *)
(* the same whether the delivery succeeds, fails or is disabled, and the    *)
(* step that notifies leaves the report and the ledger as they were.        *)
C29_NotificationFailureHarmless ==
  /\ [](\A d \in SlackDeliveries : sendBatchResult(d) = "returned")
  /\ [](Responded => /\ notified \in SlackDeliveries
                      /\ response = AnswerFor(report))
  /\ [][\A d \in SlackDeliveries :
          ProcessBillingResponds(d) =>
            /\ response' = AnswerFor(report)
            /\ report' = report
            /\ ledger' = ledger
            /\ pc' = pc]_vars

C29_Witness ==
  /\ Responded
  /\ notified = "failed"
  /\ response.status = 200
  /\ response.billingDetails = report
  /\ ~report.success
  /\ Len(ledger) > 0

(* C30: testConnection never throws: it returns false whenever the provider *)
(* request fails (an invalid access token among the failures) and true when *)
(* the request succeeds, and it makes exactly one request, whatever         *)
(* MAX_RETRIES is.                                                          *)
C30_TestConnectionNeverThrows ==
  /\ connTest.result \in {"none", "true", "false"}
  /\ connTest.phase = "settled" =>
       /\ connTest.requests = 1
       /\ connTest.result /= "none"
       /\ connLog[Len(connLog)].shop = connTest.shop
       /\ connLog[Len(connLog)].result = connTest.result
  /\ \A k \in 1..Len(connLog) :
       /\ connLog[k].requests = 1
       /\ connLog[k].response = "ok" => connLog[k].result = "true"
       /\ connLog[k].response /= "ok" => connLog[k].result = "false"
       /\ connLog[k].response = "e401" => connLog[k].result = "false"

C30_Witness ==
  /\ connTest.phase = "settled"
  /\ maxRetries = 2
  /\ Len(connLog) = 2
  /\ connLog[1].response = "e401"
  /\ connLog[1].result = "false"
  /\ connLog[2].response = "ok"
  /\ connLog[2].result = "true"
  /\ connTest.requests = 1

(* the charge procedures (chargeShopWithRetry calls) started for a key *)
ProceduresStartedFor(shop) ==
  {i \in Indices : sessions[i] = shop /\ proc[i].attempt >= 1}

(* C31: each distinct tenant key is charged at most once per run, also when *)
(* the identity source returns several session rows with the same key: the  *)
(* number of charge procedures started for a key in one run never exceeds 1 *)
C31_OneProcedurePerKey ==
  \A shop \in Shops : Cardinality(ProceduresStartedFor(shop)) <= 1

(* C32: the run report never misstates a completed charge: in every report *)
(* of processDailyBilling, of a successful or of a failed run, a tenant for *)
(* which a charge was created in this run is never listed with              *)
(* shopifyStatus skipped nor with the error 'Process failed before Shopify  *)
(* billing'.                                                                *)
C32_ReportNeverMisstatesCharge ==
  RunEnded =>
    \A j \in 1..Len(report.shopResults) :
      ChargeCreated(report.shopResults[j].shop) =>
        /\ report.shopResults[j].shopifyStatus /= "skipped"
        /\ report.shopResults[j].shopifyError
             /= "Process failed before Shopify billing"

DistinctKeys == \A i, j \in Indices : sessions[i] = sessions[j] => i = j

UsageRecordsFor(shop) == {u \in provider : u.shop = shop}

(* C33: at most one charge is created at the provider per tenant per run,   *)
(* also when a charge-creation call fails ambiguously (the provider applied *)
(* the charge and the response timed out or was lost): the retry of such an *)
(* attempt never results in a second charge for the same tenant and date.   *)
(* Stated for runs whose session rows have pairwise distinct keys.          *)
C33_NoSecondChargeOnRetry ==
  DistinctKeys => \A shop \in Shops : Cardinality(UsageRecordsFor(shop)) <= 1

(* the tasks of call c that are started and not yet settled *)
InFlightOf(c) == {i \in InFlight : calls[c].from <= i /\ i <= calls[c].to}

(* C34: the concurrency bound is shared by overlapping runs: when two       *)
(* invocations interleave in the same process, the charge procedures in     *)
(* flight across both runs never exceed K, because both go through the same *)
(* limiter: the in-flight tasks of both calls together are the limiter's    *)
(* activeCount, and every other unsettled task waits in its one queue.      *)
C34_SharedConcurrencyBound ==
  /\ Cardinality(InFlight) <= concurrency
  /\ activeCount = Cardinality(InFlight)
  /\ Len(calls) = 2 =>
       /\ Cardinality(InFlightOf(1)) + Cardinality(InFlightOf(2)) <= concurrency
       /\ \A i \in Indices :
            proc[i].phase = "queued" <=> \E k \in 1..Len(queue) : queue[k] = i

C34_Witness ==
  /\ Len(calls) = 2
  /\ concurrency = 2
  /\ Cardinality(InFlightOf(1)) = 1
  /\ Cardinality(InFlightOf(2)) = 1
  /\ queue /= <<>>

(* C35: testBillingForDate is a dry run: for any inputs it only reads the   *)
(* identities and the usage and computes the report; no step of it inserts  *)
(* a ledger row or calls the charge provider, so the ledger, the provider   *)
(* and the dispatcher are as they were, whatever the billing run beside it  *)
(* has done so far.                                                         *)
C35_TestBillingIsDryRun ==
  /\ [](testRun.calls \subseteq {"getActiveShopifySessions", "getPageViewsForDate"})
  /\ [][testRun' /= testRun =>
          /\ ledger' = ledger
          /\ provider' = provider
          /\ dispVars' = dispVars
          /\ called' = called]_vars
  /\ [](testRun.status = 200 =>
          /\ testRun.report.success
          /\ testRun.report.activeSessions = Len(sessionsSrc)
          /\ testRun.report.billingRecordsGenerated = Len(sessionsSrc))

C35_Witness ==
  /\ testRun.pc = "done"
  /\ testRun.status = 200
  /\ testRun.report.totalAmount > 0
  /\ pc = "insertRecon"
  /\ Len(ledger) > 0
  /\ provider /= {}

(* task i settled in the catch block: its last attempt threw, and so did    *)
(* every attempt before it                                                  *)
FailedByThrow(i) ==
  /\ proc[i].outcome.status = "failed"
  /\ proc[i].outcome.error /= "No active usage-based subscription found"

(* C36: for a tenant whose every attempt throws, the dispatcher makes       *)
(* exactly max(1, maxRetries) attempts: one attempt is always made, also    *)
(* when maxRetries is 0 or 1, and the backoff sleeps number attempts - 1.   *)
C36_ExactAttemptCount ==
  \A i \in Indices :
    /\ FailedByThrow(i) =>
         /\ proc[i].attempt = Max(1, maxRetries)
         /\ Len(proc[i].sleeps) = proc[i].attempt - 1
    /\ proc[i].phase \in {"lookup", "create", "sleep"} =>
         /\ proc[i].attempt >= 1
         /\ proc[i].attempt <= Max(1, maxRetries)
         /\ Len(proc[i].sleeps) =
              IF proc[i].phase = "sleep" THEN proc[i].attempt
                                         ELSE proc[i].attempt - 1

C36_Witness ==
  /\ maxRetries = 0
  /\ \E i \in Indices :
       /\ FailedByThrow(i)
       /\ proc[i].attempt = 1
       /\ proc[i].sleeps = <<>>

(* provider calls task i has certainly issued: the lookup of every attempt, *)
(* and a creation when one is in flight or has returned an id               *)
CallsAtLeast(i) ==
  proc[i].attempt
    + (IF proc[i].phase = "create" \/ proc[i].outcome.status = "success"
         THEN 1 ELSE 0)

(* provider calls task i can have issued: one lookup per attempt, and one   *)
(* creation per attempt whose lookup has returned                           *)
CallsAtMost(i) ==
  2 * proc[i].attempt - (IF proc[i].phase = "lookup" THEN 1 ELSE 0)

(* the creation is issued by the step in which the lookup of the same       *)
(* attempt returns                                                          *)
CreateFollowsLookup(j) ==
  (proc'[j].phase = "create" /\ proc[j].phase /= "create") =>
    /\ proc[j].phase = "lookup"
    /\ proc'[j].attempt = proc[j].attempt

(* a new attempt begins with its own lookup *)
RetryRepeatsLookup(j) ==
  proc'[j].attempt /= proc[j].attempt =>
    /\ proc'[j].attempt = proc[j].attempt + 1
    /\ proc'[j].phase = "lookup"
    /\ proc[j].phase \in {"started", "sleep"}

(* an attempt whose creation has returned or thrown issues no further call *)
CreateEndsAttempt(j) ==
  (proc[j].phase = "create" /\ proc'[j].phase /= "create") =>
    proc'[j].phase \in {"sleep", "done"}

WellFormed(o, i) ==
  /\ o.shop = sessions[i]
  /\ o.status \in {"success", "failed", "skipped"}
  /\ o.status = "success" =>
       /\ o.chargeId /= NoChargeId
       /\ o.error = NoError
  /\ o.status = "failed" =>
       /\ o.error /= NoError
       /\ o.chargeId = NoChargeId
  /\ o.status = "skipped" =>
       /\ o.amount = 0
       /\ o.chargeId = NoChargeId
       /\ o.error = NoError
  /\ o.status /= "skipped" =>
       /\ o.amount = AmountFor(charges, sessions[i])
       /\ o.amount > 0

(* C38: every outcome returned by chargeShops is well-formed: success comes *)
(* with a charge id and no error, failed with an error message and no       *)
(* charge id, skipped with amount 0 and neither, and an outcome that is not *)
(* skipped carries the amount submitted for the tenant.                     *)
C38_OutcomesWellFormed ==
  /\ dispatch = "returned" =>
       /\ Len(results) = Len(sessions)
       /\ \A i \in Indices : WellFormed(results[i], i)
  /\ \A i \in Indices :
       proc[i].phase = "done" => WellFormed(proc[i].outcome, i)

C38_Witness ==
  /\ dispatch = "returned"
  /\ Len(results) = 2
  /\ results[1].status = "failed"
  /\ results[1].error = "Failed to create usage charge - no charge ID returned"
  /\ results[1].amount = 1050
  /\ results[2].status = "success"

=============================================================================
